---- MODULE Spec2Model ----
(***************************************************************************)
(* Request construction and response handling of arango/aql.py: the AQL    *)
(* wrapper (execute, explain, validate, kill, queries, slow_queries,       *)
(* clear_slow_queries, tracking, set_tracking, functions, create_function, *)
(* delete_function) and the AQLQueryCache wrapper (properties, configure,  *)
(* entries, clear).                                                        *)
(*                                                                         *)
(* Python values are tagged records so that None, booleans, integers,      *)
(* strings, lists and dicts stay distinguishable.  A string is a sequence  *)
(* of chunks in which the quote and the backslash always stand alone, so   *)
(* that json.dumps can escape them; commas, brackets and braces stand      *)
(* alone too.  A dict is a sequence of <<key, value>> pairs in insertion   *)
(* order.                                                                  *)
(***************************************************************************)
EXTENDS Integers, Sequences, FiniteSets, TLC

VARIABLES
    conn,        \* self._conn
    executor,    \* self._executor, by its context: "default" or "transaction"
    pc,          \* "idle", "sent" (request handed over), "done" (handler ran)
    op,          \* the operation being invoked
    args,        \* its arguments
    request,     \* the request descriptor it built
    dispatched,  \* the request descriptors handed to the executor by this call
    wire,        \* what the executor issued for them: HTTP calls or scripts
    resp,        \* the response given to the response handler
    outcome,     \* what the response handler returned or raised
    ncalls,      \* operations invoked on the wrapper so far
    nsent        \* request descriptors handed to the executor so far

vars == <<conn, executor, pc, op, args, request, dispatched, wire, resp,
          outcome, ncalls, nsent>>

(* Bounds *)
MaxSet == 2      \* keyword arguments a call overrides at most
MaxCalls == 2    \* calls made on one wrapper

(***************************************************************************)
(* Python / JSON values                                                    *)
(***************************************************************************)
None == [t |-> "null"]
JBool(b) == [t |-> "bool", b |-> b]
JInt(n) == [t |-> "int", n |-> n]
JStr(s) == [t |-> "str", s |-> s]
JList(xs) == [t |-> "list", xs |-> xs]
JObj(kv) == [t |-> "obj", kv |-> kv]

True == JBool(TRUE)
False == JBool(FALSE)
EmptyDict == JObj(<<>>)

Keys(d) == {d.kv[i][1] : i \in 1..Len(d.kv)}
Has(d, k) == k \in Keys(d)
Get(d, k) == d.kv[CHOOSE i \in 1..Len(d.kv) : d.kv[i][1] = k][2]

\* d[k] = v
Put(d, k, v) ==
    IF Has(d, k)
    THEN JObj([i \in 1..Len(d.kv) |-> IF d.kv[i][1] = k THEN <<k, v>> ELSE d.kv[i]])
    ELSE JObj(Append(d.kv, <<k, v>>))

\* d.pop(k, None), keeping the dict
Pop(d, k) == JObj(SelectSeq(d.kv, LAMBDA e : e[1] # k))

\* d[new] = d.pop(old), when old is in d
Rename(d, old, new) ==
    IF Has(d, old) THEN Put(Pop(d, old), new, Get(d, old)) ELSE d

RECURSIVE UpdateFrom(_, _, _)
UpdateFrom(d, o, i) ==
    IF i > Len(o.kv) THEN d
    ELSE UpdateFrom(Put(d, o.kv[i][1], o.kv[i][2]), o, i + 1)

\* d.update(o)
Update(d, o) == UpdateFrom(d, o, 1)

\* if v is not None: d[k] = v
PutIfSet(d, k, v) == IF v # None THEN Put(d, k, v) ELSE d

\* Python's d1 == d2 on dicts: same keys, same values, whatever the order
DictEq(a, b) ==
    /\ Keys(a) = Keys(b)
    /\ \A k \in Keys(a) : Get(a, k) = Get(b, k)

(***************************************************************************)
(* json.dumps with its default separators                                  *)
(***************************************************************************)
RECURSIVE Escape(_)
Escape(s) ==
    IF s = <<>> THEN <<>>
    ELSE (IF Head(s) \in {"\"", "\\"} THEN <<"\\", Head(s)>> ELSE <<Head(s)>>)
         \o Escape(Tail(s))

Quote(s) == <<"\"">> \o Escape(s) \o <<"\"">>

RECURSIVE dumps(_)
RECURSIVE dumpsItems(_, _)
RECURSIVE dumpsPairs(_, _)
dumps(v) ==
    CASE v.t = "null" -> <<"null">>
      [] v.t = "bool" -> <<IF v.b THEN "true" ELSE "false">>
      [] v.t = "int" -> <<ToString(v.n)>>
      [] v.t = "str" -> Quote(v.s)
      [] v.t = "list" -> <<"[">> \o dumpsItems(v.xs, 1) \o <<"]">>
      [] v.t = "obj" -> <<"{">> \o dumpsPairs(v.kv, 1) \o <<"}">>

dumpsItems(xs, i) ==
    IF i > Len(xs) THEN <<>>
    ELSE (IF i > 1 THEN <<",", " ">> ELSE <<>>) \o dumps(xs[i]) \o dumpsItems(xs, i + 1)

dumpsPairs(kv, i) ==
    IF i > Len(kv) THEN <<>>
    ELSE (IF i > 1 THEN <<",", " ">> ELSE <<>>)
         \o Quote(<<kv[i][1]>>) \o <<":", " ">> \o dumps(kv[i][2])
         \o dumpsPairs(kv, i + 1)

(***************************************************************************)
(* Request(method, endpoint, data, params, command, read, write)           *)
(***************************************************************************)
Request(method, endpoint, data, params, command, read, write) ==
    [method |-> method, endpoint |-> endpoint, data |-> data, params |-> params,
     command |-> command, read |-> read, write |-> write]

NoRequest == [method |-> "none"]

\* APIWrapper._is_transaction: the executor runs in transaction context
is_transaction(ex) == ex = "transaction"

(***************************************************************************)
(* AQL.execute: payload, options, command and request                      *)
(***************************************************************************)
\* if v: d[k] = v
PutIfTruthy(d, k, v) ==
    IF v \notin {None, False, JInt(0), EmptyDict, JList(<<>>)} THEN Put(d, k, v) ELSE d

\* execute's payload with truthiness tests in place of "is not None"
execute_toplevel_truthy(a) ==
    LET d0 == JObj(<< <<"query", a.query>>, <<"count", a.count>> >>)
        d1 == PutIfTruthy(d0, "batchSize", a.batch_size)
        d2 == PutIfTruthy(d1, "ttl", a.ttl)
        d3 == PutIfTruthy(d2, "bindVars", a.bind_vars)
        d4 == PutIfTruthy(d3, "cache", a.cache)
    IN  PutIfTruthy(d4, "memoryLimit", a.memory_limit)

execute_toplevel(a) ==
    LET d0 == JObj(<< <<"query", a.query>>, <<"count", a.count>> >>)
        d1 == PutIfSet(d0, "batchSize", a.batch_size)
        d2 == PutIfSet(d1, "ttl", a.ttl)
        d3 == PutIfSet(d2, "bindVars", a.bind_vars)
        d4 == PutIfSet(d3, "cache", a.cache)
    IN  PutIfSet(d4, "memoryLimit", a.memory_limit)

execute_options(a) ==
    LET o1 == PutIfSet(EmptyDict, "fullCount", a.full_count)
        o2 == PutIfSet(o1, "maxNumberOfPlans", a.max_plans)
        o3 == IF a.optimizer_rules # None
              THEN Put(o2, "optimizer", JObj(<< <<"rules", a.optimizer_rules>> >>))
              ELSE o2
        o4 == PutIfSet(o3, "failOnWarning", a.fail_on_warning)
        o5 == PutIfSet(o4, "profile", a.profile)
        o6 == PutIfSet(o5, "maxTransactionSize", a.max_transaction_size)
        o7 == PutIfSet(o6, "maxWarningCount", a.max_warning_count)
        o8 == PutIfSet(o7, "intermediateCommitCount", a.intermediate_commit_count)
        o9 == PutIfSet(o8, "intermediateCommitSize", a.intermediate_commit_size)
    IN  PutIfSet(o9, "satelliteSyncWait", a.satellite_sync_wait)

\* execute's payload without data.update(options)
execute_data_nested_only(a) ==
    LET data == execute_toplevel(a)
        options == execute_options(a)
    IN  IF options # EmptyDict THEN Put(data, "options", options) ELSE data

execute_data(a) ==
    LET data == execute_toplevel(a)
        options == execute_options(a)
        withopts == IF options # EmptyDict THEN Put(data, "options", options) ELSE data
    IN  Update(withopts, options)

\* the command with the query text pasted in, not JSON-encoded
execute_command_raw_query(a, ex) ==
    IF is_transaction(ex)
    THEN [t |-> "script",
          text |-> <<"db._query(">> \o a.query.s \o <<",", " ">>
                   \o dumps(a.bind_vars) \o <<",", " ">>
                   \o dumps(execute_data(a)) \o <<").toArray()">>]
    ELSE None

\* the command without the bind variables
execute_command_no_bind_vars(a, ex) ==
    IF is_transaction(ex)
    THEN [t |-> "script",
          text |-> <<"db._query(">> \o dumps(a.query) \o <<",", " ">>
                   \o dumps(execute_data(a)) \o <<").toArray()">>]
    ELSE None

execute_command(a, ex) ==
    IF is_transaction(ex)
    THEN [t |-> "script",
          text |-> <<"db._query(">> \o dumps(a.query) \o <<",", " ">>
                   \o dumps(a.bind_vars) \o <<",", " ">>
                   \o dumps(execute_data(a)) \o <<").toArray()">>]
    ELSE None

\* the request of execute with the collection lists put into the body too
execute_request_collections_in_body(a, ex) ==
    LET data == PutIfSet(PutIfSet(execute_data(a), "read", a.read_collections),
                         "write", a.write_collections)
    IN  Request("post", <<"/_api/cursor">>, data, None,
                execute_command(a, ex), a.read_collections, a.write_collections)

execute_request(a, ex) ==
    Request("post", <<"/_api/cursor">>, execute_data(a), None,
            execute_command(a, ex), a.read_collections, a.write_collections)

(***************************************************************************)
(* The other request builders of AQL                                       *)
(***************************************************************************)
explain_request(a) ==
    LET o0 == JObj(<< <<"allPlans", a.all_plans>> >>)
        o1 == PutIfSet(o0, "maxNumberOfPlans", a.max_plans)
        options == IF a.opt_rules # None
                   THEN Put(o1, "optimizer", JObj(<< <<"rules", a.opt_rules>> >>))
                   ELSE o1
    IN  Request("post", <<"/_api/explain">>,
                JObj(<< <<"query", a.query>>, <<"options", options>> >>),
                None, None, None, None)

validate_request(a) ==
    Request("post", <<"/_api/query">>, JObj(<< <<"query", a.query>> >>),
            None, None, None, None)

kill_request(a) ==
    Request("delete", <<"/_api/query/">> \o a.query_id.s, None, None, None, None, None)

queries_request ==
    Request("get", <<"/_api/query/current">>, None, None, None, None, None)

slow_queries_request ==
    Request("get", <<"/_api/query/slow">>, None, None, None, None, None)

clear_slow_queries_request ==
    Request("delete", <<"/_api/query/slow">>, None, None, None, None, None)

tracking_request ==
    Request("get", <<"/_api/query/properties">>, None, None, None, None, None)

\* set_tracking's payload with truthiness tests in place of "is not None"
set_tracking_data_truthy(a) ==
    LET d1 == PutIfTruthy(EmptyDict, "enabled", a.enabled)
        d2 == PutIfTruthy(d1, "maxSlowQueries", a.max_slow_queries)
        d3 == PutIfTruthy(d2, "maxQueryStringLength", a.max_query_string_length)
        d4 == PutIfTruthy(d3, "slowQueryThreshold", a.slow_query_threshold)
        d5 == PutIfTruthy(d4, "trackBindVars", a.track_bind_vars)
    IN  PutIfTruthy(d5, "trackSlowQueries", a.track_slow_queries)

set_tracking_data(a) ==
    LET d1 == PutIfSet(EmptyDict, "enabled", a.enabled)
        d2 == PutIfSet(d1, "maxSlowQueries", a.max_slow_queries)
        d3 == PutIfSet(d2, "maxQueryStringLength", a.max_query_string_length)
        d4 == PutIfSet(d3, "slowQueryThreshold", a.slow_query_threshold)
        d5 == PutIfSet(d4, "trackBindVars", a.track_bind_vars)
    IN  PutIfSet(d5, "trackSlowQueries", a.track_slow_queries)

set_tracking_request(a) ==
    Request("put", <<"/_api/query/properties">>, set_tracking_data(a),
            None, None, None, None)

functions_request ==
    Request("get", <<"/_api/aqlfunction">>, None, None, None, None, None)

create_function_request(a) ==
    Request("post", <<"/_api/aqlfunction">>,
            JObj(<< <<"name", a.name>>, <<"code", a.code>> >>),
            None, None, None, None)

delete_function_request(a) ==
    Request("delete", <<"/_api/aqlfunction/">> \o a.name.s, None,
            JObj(<< <<"group", a.group>> >>), None, None, None)

(***************************************************************************)
(* The request builders of AQLQueryCache                                   *)
(***************************************************************************)
properties_request ==
    Request("get", <<"/_api/query-cache/properties">>, None, None, None, None, None)

configure_data(a) ==
    PutIfSet(PutIfSet(EmptyDict, "mode", a.mode), "maxResults", a.limit)

configure_request(a) ==
    Request("put", <<"/_api/query-cache/properties">>, configure_data(a),
            None, None, None, None)

entries_request ==
    Request("get", <<"/_api/query-cache/entries">>, None, None, None, None, None)

clear_request ==
    Request("delete", <<"/_api/query-cache">>, None, None, None, None, None)

(***************************************************************************)
(* Response formatting                                                     *)
(***************************************************************************)
\* _format_tracking giving two wire fields the same normalized name
format_tracking_merging(body) ==
    LET b1 == Pop(Pop(body, "code"), "error")
        b2 == Rename(b1, "maxQueryStringLength", "max_query_string_length")
        b3 == Rename(b2, "maxSlowQueries", "max_slow_queries")
        b4 == Rename(b3, "slowQueryThreshold", "max_slow_queries")
        b5 == Rename(b4, "trackBindVars", "track_bind_vars")
    IN  Rename(b5, "trackSlowQueries", "track_slow_queries")

format_tracking(body) ==
    LET b1 == Pop(Pop(body, "code"), "error")
        b2 == Rename(b1, "maxQueryStringLength", "max_query_string_length")
        b3 == Rename(b2, "maxSlowQueries", "max_slow_queries")
        b4 == Rename(b3, "slowQueryThreshold", "slow_query_threshold")
        b5 == Rename(b4, "trackBindVars", "track_bind_vars")
    IN  Rename(b5, "trackSlowQueries", "track_slow_queries")

format_queries(body) ==
    JList([i \in 1..Len(body.xs) |->
             Rename(Rename(body.xs[i], "bindVars", "bind_vars"), "runTime", "runtime")])

(***************************************************************************)
(* Response handlers: what each returns or raises for a response           *)
(***************************************************************************)
Return(v) == [kind |-> "return", value |-> v]
Raise(error, r, req) == [kind |-> "raise", error |-> error, resp |-> r, request |-> req]
NoOutcome == [kind |-> "none"]
NoResponse == [is_success |-> FALSE, error_code |-> None, body |-> None, none |-> TRUE]

Cursor(c, body) == [t |-> "cursor", conn |-> c, init |-> body]

\* explain's handler picking the field by the allPlans flag it sent
explain_handler_by_all_plans(req, r) ==
    IF ~r.is_success THEN Raise("AQLQueryExplainError", r, req)
    ELSE IF Get(Get(req.data, "options"), "allPlans") = True /\ Has(r.body, "plans")
         THEN Return(Get(r.body, "plans"))
    ELSE IF Has(r.body, "plan") THEN Return(Get(r.body, "plan"))
    ELSE Return(Get(r.body, "plans"))

explain_handler(req, r) ==
    IF ~r.is_success THEN Raise("AQLQueryExplainError", r, req)
    ELSE IF Has(r.body, "plan") THEN Return(Get(r.body, "plan"))
    ELSE Return(Get(r.body, "plans"))

validate_handler(req, r) ==
    IF ~r.is_success THEN Raise("AQLQueryValidateError", r, req)
    ELSE Return(Rename(Pop(Pop(r.body, "code"), "error"), "bindVars", "bind_vars"))

execute_handler(req, c, r) ==
    IF ~r.is_success THEN Raise("AQLQueryExecuteError", r, req)
    ELSE Return(Cursor(c, r.body))

\* kill's handler swallowing a "query not found" (1591) error
kill_handler_ignoring_not_found(req, r) ==
    IF r.error_code = JInt(1591) THEN Return(False)
    ELSE IF ~r.is_success THEN Raise("AQLQueryKillError", r, req)
    ELSE Return(True)

kill_handler(req, r) ==
    IF ~r.is_success THEN Raise("AQLQueryKillError", r, req) ELSE Return(True)

queries_handler(req, r) ==
    IF ~r.is_success THEN Raise("AQLQueryListError", r, req)
    ELSE Return(format_queries(r.body))

slow_queries_handler(req, r) ==
    IF ~r.is_success THEN Raise("AQLQueryListError", r, req)
    ELSE Return(format_queries(r.body))

clear_slow_queries_handler(req, r) ==
    IF ~r.is_success THEN Raise("AQLQueryClearError", r, req) ELSE Return(True)

tracking_handler(req, r) ==
    IF ~r.is_success THEN Raise("AQLQueryTrackingGetError", r, req)
    ELSE Return(format_tracking(r.body))

set_tracking_handler(req, r) ==
    IF ~r.is_success THEN Raise("AQLQueryTrackingSetError", r, req)
    ELSE Return(format_tracking(r.body))

functions_handler(req, r) ==
    IF ~r.is_success THEN Raise("AQLFunctionListError", r, req)
    ELSE LET body == IF r.body = None THEN EmptyDict ELSE r.body
         IN  IF ~Has(body, "result") THEN Return(JList(<<>>))
             ELSE LET result == Get(body, "result")
                  IN  Return(JList([i \in 1..Len(result.xs) |->
                        Rename(result.xs[i], "isDeterministic", "is_deterministic")]))

create_function_handler(req, r) ==
    IF ~r.is_success THEN Raise("AQLFunctionCreateError", r, req)
    ELSE Return(JObj(<< <<"is_new", Get(r.body, "isNewlyCreated")>> >>))

\* delete_function's handler testing for success before the error code
delete_function_handler_success_first(a, req, r) ==
    IF ~r.is_success THEN Raise("AQLFunctionDeleteError", r, req)
    ELSE IF r.error_code = JInt(1582) /\ a.ignore_missing = True THEN Return(False)
    ELSE Return(JObj(<< <<"deleted", Get(r.body, "deletedCount")>> >>))

delete_function_handler(a, req, r) ==
    IF r.error_code = JInt(1582) /\ a.ignore_missing = True THEN Return(False)
    ELSE IF ~r.is_success THEN Raise("AQLFunctionDeleteError", r, req)
    ELSE Return(JObj(<< <<"deleted", Get(r.body, "deletedCount")>> >>))

properties_handler(req, r) ==
    IF ~r.is_success THEN Raise("AQLCachePropertiesError", r, req)
    ELSE Return(JObj(<< <<"mode", Get(r.body, "mode")>>,
                        <<"limit", Get(r.body, "maxResults")>> >>))

\* configure's handler raising the error kind of properties
configure_handler_properties_error(req, r) ==
    IF ~r.is_success THEN Raise("AQLCachePropertiesError", r, req)
    ELSE Return(JObj(<< <<"mode", Get(r.body, "mode")>>,
                        <<"limit", Get(r.body, "maxResults")>> >>))

configure_handler(req, r) ==
    IF ~r.is_success THEN Raise("AQLCacheConfigureError", r, req)
    ELSE Return(JObj(<< <<"mode", Get(r.body, "mode")>>,
                        <<"limit", Get(r.body, "maxResults")>> >>))

entries_handler(req, r) ==
    IF ~r.is_success THEN Raise("AQLCacheEntriesError", r, req) ELSE Return(r.body)

clear_handler(req, r) ==
    IF ~r.is_success THEN Raise("AQLCacheClearError", r, req) ELSE Return(True)

\* the response_handler closure of the operation o
response_handler(o, a, req, c, r) ==
    CASE o = "explain" -> explain_handler(req, r)
      [] o = "validate" -> validate_handler(req, r)
      [] o = "execute" -> execute_handler(req, c, r)
      [] o = "kill" -> kill_handler(req, r)
      [] o = "queries" -> queries_handler(req, r)
      [] o = "slow_queries" -> slow_queries_handler(req, r)
      [] o = "clear_slow_queries" -> clear_slow_queries_handler(req, r)
      [] o = "tracking" -> tracking_handler(req, r)
      [] o = "set_tracking" -> set_tracking_handler(req, r)
      [] o = "functions" -> functions_handler(req, r)
      [] o = "create_function" -> create_function_handler(req, r)
      [] o = "delete_function" -> delete_function_handler(a, req, r)
      [] o = "cache.properties" -> properties_handler(req, r)
      [] o = "cache.configure" -> configure_handler(req, r)
      [] o = "cache.entries" -> entries_handler(req, r)
      [] o = "cache.clear" -> clear_handler(req, r)

(***************************************************************************)
(* The calls the model makes: the defaults of each signature, with at most *)
(* MaxSet keyword arguments given another value                            *)
(***************************************************************************)
RECURSIVE Overrides(_, _, _)
Overrides(base, alts, k) ==
    IF k = 0 THEN {base}
    ELSE LET prev == Overrides(base, alts, k - 1)
         IN  prev \cup UNION {{[a EXCEPT ![p] = v] : v \in alts[p]} :
                                a \in prev, p \in DOMAIN alts}

Queries == {JStr(<<"RETURN 1">>),
            JStr(<<"RETURN ", "\"", "a", ",", " ", "\\", "b", "\"">>)}

Rules == JList(<<JStr(<<"+all">>), JStr(<<"-use-indexes">>)>>)
ReadSet == JList(<<JStr(<<"students">>)>>)
WriteSet == JList(<<JStr(<<"teachers">>), JStr(<<"students">>)>>)

execute_defaults(q) ==
    [query |-> q, count |-> False, batch_size |-> None, ttl |-> None,
     bind_vars |-> None, full_count |-> None, max_plans |-> None,
     optimizer_rules |-> None, cache |-> None, memory_limit |-> JInt(0),
     fail_on_warning |-> None, profile |-> None, max_transaction_size |-> None,
     max_warning_count |-> None, intermediate_commit_count |-> None,
     intermediate_commit_size |-> None, satellite_sync_wait |-> None,
     read_collections |-> None, write_collections |-> None]

execute_alts ==
    [count |-> {True},
     batch_size |-> {JInt(0)},
     ttl |-> {JInt(30)},
     bind_vars |-> {EmptyDict, JObj(<< <<"v", JInt(1)>>, <<"w", JStr(<<"x", "\"">>)>> >>)},
     full_count |-> {True, False},
     max_plans |-> {JInt(3)},
     optimizer_rules |-> {Rules},
     cache |-> {True, False},
     memory_limit |-> {None, JInt(1)},
     fail_on_warning |-> {False},
     profile |-> {True},
     max_transaction_size |-> {JInt(0)},
     max_warning_count |-> {JInt(7)},
     intermediate_commit_count |-> {JInt(100)},
     intermediate_commit_size |-> {JInt(0)},
     satellite_sync_wait |-> {JInt(60)},
     read_collections |-> {ReadSet},
     write_collections |-> {WriteSet}]

ExecuteArgs == UNION {Overrides(execute_defaults(q), execute_alts, MaxSet) : q \in Queries}

ExplainArgs ==
    UNION {Overrides([query |-> q, all_plans |-> False, max_plans |-> None,
                      opt_rules |-> None],
                     [all_plans |-> {True}, max_plans |-> {JInt(3)},
                      opt_rules |-> {Rules}], MaxSet) : q \in Queries}

ValidateArgs == {[query |-> q] : q \in Queries}

KillArgs == {[query_id |-> JStr(<<"4353453">>)]}

SetTrackingArgs ==
    Overrides([enabled |-> None, max_slow_queries |-> None,
               slow_query_threshold |-> None, max_query_string_length |-> None,
               track_bind_vars |-> None, track_slow_queries |-> None],
              [enabled |-> {True, False},
               max_slow_queries |-> {JInt(5), JInt(0)},
               slow_query_threshold |-> {JInt(10)},
               max_query_string_length |-> {JInt(4096)},
               track_bind_vars |-> {True, False},
               track_slow_queries |-> {False}], MaxSet)

CreateFunctionArgs ==
    {[name |-> JStr(<<"functions::temperature::converter">>),
      code |-> JStr(<<"function (x) { return x; }">>)]}

DeleteFunctionArgs ==
    Overrides([name |-> JStr(<<"functions::temperature::converter">>),
               group |-> False, ignore_missing |-> False],
              [group |-> {True}, ignore_missing |-> {True}], MaxSet)

ConfigureArgs ==
    Overrides([mode |-> None, limit |-> None],
              [mode |-> {JStr(<<"off">>), JStr(<<"on">>), JStr(<<"demand">>)},
               limit |-> {JInt(0), JInt(128)}], MaxSet)

NoArgs == [none |-> TRUE]

(***************************************************************************)
(* The responses the transport returns                                     *)
(***************************************************************************)
Response(ok, code, body) == [is_success |-> ok, error_code |-> code, body |-> body]

ErrorCodes == {JInt(1582), JInt(1591), None}

ErrorBody(code) ==
    IF code = None THEN None
    ELSE JObj(<< <<"error", True>>, <<"code", JInt(400)>>, <<"errorNum", code>> >>)

Failures == {Response(FALSE, c, ErrorBody(c)) : c \in ErrorCodes}

Envelope == JObj(<< <<"error", False>>, <<"code", JInt(200)>> >>)

PlanA == JObj(<< <<"estimatedCost", JInt(1)>> >>)
PlanB == JObj(<< <<"estimatedCost", JInt(2)>> >>)

ExplainBodies ==
    {Put(Envelope, "plan", PlanA),
     Put(Envelope, "plans", JList(<<PlanA, PlanB>>)),
     Put(Put(Envelope, "plan", PlanB), "plans", JList(<<PlanA>>))}

ValidateBodies ==
    {Put(Put(Envelope, "parsed", True), "bindVars", JList(<<JStr(<<"v">>)>>)),
     JObj(<< <<"parsed", True>> >>)}

CursorBodies == {Put(Put(Envelope, "result", JList(<<JInt(1)>>)), "hasMore", False)}

QueryRecords ==
    <<JObj(<< <<"id", JStr(<<"1">>)>>, <<"bindVars", EmptyDict>>, <<"runTime", JInt(4)>> >>),
      JObj(<< <<"id", JStr(<<"2">>)>>, <<"runTime", JInt(0)>> >>),
      JObj(<< <<"id", JStr(<<"3">>)>> >>)>>

QueriesBodies == {JList(<<>>), JList(QueryRecords)}

TrackingWire ==
    << <<"enabled", True>>, <<"maxSlowQueries", JInt(0)>>,
       <<"slowQueryThreshold", JInt(10)>>, <<"maxQueryStringLength", JInt(4096)>>,
       <<"trackBindVars", False>>, <<"trackSlowQueries", True>> >>

\* any subset of the six properties inside the envelope, and all six bare
TrackingBodies ==
    {JObj(Envelope.kv \o SelectSeq(TrackingWire, LAMBDA e : e[1] \in S)) :
        S \in SUBSET {TrackingWire[i][1] : i \in 1..Len(TrackingWire)}}
    \cup {JObj(TrackingWire)}

FunctionRecords ==
    <<JObj(<< <<"name", JStr(<<"f::a">>)>>, <<"isDeterministic", False>> >>),
      JObj(<< <<"name", JStr(<<"f::b">>)>> >>)>>

FunctionsBodies == {None, Envelope, Put(Envelope, "result", JList(FunctionRecords))}

CreateFunctionBodies == {Put(Envelope, "isNewlyCreated", b) : b \in {True, False}}

DeleteFunctionBodies == {Put(Envelope, "deletedCount", JInt(n)) : n \in {0, 1, 2}}

CacheBodies ==
    {JObj((IF env THEN Envelope.kv ELSE <<>>)
          \o << <<"mode", JStr(<<m>>)>>, <<"maxResults", JInt(n)>> >>) :
        m \in {"off", "on", "demand"}, n \in {0, 128}, env \in BOOLEAN}

EntriesBodies == {JList(<<>>), JList(<<JObj(<< <<"hash", JStr(<<"123">>)>> >>)>>)}

SuccessBodies(o) ==
    CASE o = "explain" -> ExplainBodies
      [] o = "validate" -> ValidateBodies
      [] o = "execute" -> CursorBodies
      [] o \in {"queries", "slow_queries"} -> QueriesBodies
      [] o \in {"tracking", "set_tracking"} -> TrackingBodies
      [] o = "functions" -> FunctionsBodies
      [] o = "create_function" -> CreateFunctionBodies
      [] o = "delete_function" -> DeleteFunctionBodies
      [] o \in {"cache.properties", "cache.configure"} -> CacheBodies
      [] o = "cache.entries" -> EntriesBodies
      [] OTHER -> {Envelope}

Responses(o) == Failures \cup {Response(TRUE, None, b) : b \in SuccessBodies(o)}

(***************************************************************************)
(* The executor: what it issues for a request descriptor handed to it      *)
(***************************************************************************)
Issue(req, ex) ==
    IF is_transaction(ex) /\ req.command # None
    THEN [via |-> "script", text |-> req.command.text]
    ELSE [via |-> "http", method |-> req.method, endpoint |-> req.endpoint]

(***************************************************************************)
(* Actions                                                                 *)
(***************************************************************************)
Init ==
    /\ conn = [db_name |-> "test"]
    /\ executor \in {"default", "transaction"}
    /\ pc = "idle"
    /\ op = "none"
    /\ args = NoArgs
    /\ request = NoRequest
    /\ dispatched = <<>>
    /\ wire = <<>>
    /\ resp = NoResponse
    /\ outcome = NoOutcome
    /\ ncalls = 0
    /\ nsent = 0

\* self._execute(request, response_handler): hand the request to the executor
Invoke(o, a, req) ==
    /\ pc = "idle"
    /\ ncalls < MaxCalls
    /\ pc' = "sent"
    /\ op' = o
    /\ args' = a
    /\ request' = req
    /\ dispatched' = <<req>>
    /\ wire' = <<Issue(req, executor)>>
    /\ ncalls' = ncalls + 1
    /\ nsent' = nsent + 1
    /\ UNCHANGED <<conn, executor, resp, outcome>>

explain == \E a \in ExplainArgs : Invoke("explain", a, explain_request(a))
validate == \E a \in ValidateArgs : Invoke("validate", a, validate_request(a))
execute == \E a \in ExecuteArgs : Invoke("execute", a, execute_request(a, executor))
kill == \E a \in KillArgs : Invoke("kill", a, kill_request(a))
queries == Invoke("queries", NoArgs, queries_request)
slow_queries == Invoke("slow_queries", NoArgs, slow_queries_request)
clear_slow_queries == Invoke("clear_slow_queries", NoArgs, clear_slow_queries_request)
tracking == Invoke("tracking", NoArgs, tracking_request)
set_tracking == \E a \in SetTrackingArgs : Invoke("set_tracking", a, set_tracking_request(a))
functions == Invoke("functions", NoArgs, functions_request)
create_function ==
    \E a \in CreateFunctionArgs : Invoke("create_function", a, create_function_request(a))
delete_function ==
    \E a \in DeleteFunctionArgs : Invoke("delete_function", a, delete_function_request(a))
properties == Invoke("cache.properties", NoArgs, properties_request)
configure == \E a \in ConfigureArgs : Invoke("cache.configure", a, configure_request(a))
entries == Invoke("cache.entries", NoArgs, entries_request)
clear == Invoke("cache.clear", NoArgs, clear_request)

\* a handler that hands the request to the executor again after a failure
RespondRetrying ==
    /\ pc = "sent"
    /\ \E r \in Responses(op) :
        /\ resp' = r
        /\ outcome' = response_handler(op, args, request, conn, r)
        /\ IF r.is_success
           THEN UNCHANGED <<dispatched, wire, nsent>>
           ELSE /\ dispatched' = Append(dispatched, request)
                /\ wire' = Append(wire, Issue(request, executor))
                /\ nsent' = nsent + 1
    /\ pc' = "done"
    /\ UNCHANGED <<conn, executor, op, args, request, ncalls>>

\* the executor calls the response handler with the response
Respond ==
    /\ pc = "sent"
    /\ \E r \in Responses(op) :
        /\ resp' = r
        /\ outcome' = response_handler(op, args, request, conn, r)
    /\ pc' = "done"
    /\ UNCHANGED <<conn, executor, op, args, request, dispatched, wire, ncalls, nsent>>

\* the call returns or raises to the caller; nothing of it is retained
Finish ==
    /\ pc = "done"
    /\ pc' = "idle"
    /\ op' = "none"
    /\ args' = NoArgs
    /\ request' = NoRequest
    /\ dispatched' = <<>>
    /\ wire' = <<>>
    /\ resp' = NoResponse
    /\ outcome' = NoOutcome
    /\ UNCHANGED <<conn, executor, ncalls, nsent>>

Next ==
    \/ explain \/ validate \/ execute \/ kill
    \/ queries \/ slow_queries \/ clear_slow_queries
    \/ tracking \/ set_tracking
    \/ functions \/ create_function \/ delete_function
    \/ properties \/ configure \/ entries \/ clear
    \/ Respond
    \/ Finish

Spec == Init /\ [][Next]_vars

(***************************************************************************)
(* Vocabulary of the properties                                            *)
(***************************************************************************)
\* execute's optional top-level parameters and their wire names
TopLevelParams ==
    << <<"batch_size", "batchSize">>, <<"ttl", "ttl">>, <<"bind_vars", "bindVars">>,
       <<"cache", "cache">>, <<"memory_limit", "memoryLimit">> >>

\* execute's option parameters and the option fields they set
OptionParams ==
    << <<"full_count", "fullCount">>, <<"max_plans", "maxNumberOfPlans">>,
       <<"optimizer_rules", "optimizer">>, <<"fail_on_warning", "failOnWarning">>,
       <<"profile", "profile">>, <<"max_transaction_size", "maxTransactionSize">>,
       <<"max_warning_count", "maxWarningCount">>,
       <<"intermediate_commit_count", "intermediateCommitCount">>,
       <<"intermediate_commit_size", "intermediateCommitSize">>,
       <<"satellite_sync_wait", "satelliteSyncWait">> >>

Range(f) == {f[i] : i \in DOMAIN f}

\* the value an option field carries for the argument of its parameter
OptionValue(a, pk) ==
    IF pk[2] = "optimizer" THEN JObj(<< <<"rules", a[pk[1]]>> >>) ELSE a[pk[1]]

AnyOptionSet(a) == \E pk \in Range(OptionParams) : a[pk[1]] # None

ExecuteBuilt == pc # "idle" /\ op = "execute"

\* C1: in the payload of execute, a key of an optional parameter is present
\* exactly when the parameter is not None and then carries its value: batchSize,
\* ttl, bindVars, cache and every option field are absent when unset,
\* memoryLimit is 0 when memory_limit is left at its default, query and count
\* are always present, and there is no other key than these and 'options'.
C1_UnsetParametersAbsent ==
    ExecuteBuilt =>
        LET d == request.data
        IN  /\ Has(d, "query") /\ Get(d, "query") = args.query
            /\ Has(d, "count") /\ Get(d, "count") = args.count
            /\ \A pk \in Range(TopLevelParams) :
                 /\ Has(d, pk[2]) <=> args[pk[1]] # None
                 /\ Has(d, pk[2]) => Get(d, pk[2]) = args[pk[1]]
            /\ \A pk \in Range(OptionParams) :
                 Has(d, pk[2]) <=> args[pk[1]] # None
            /\ args.memory_limit = JInt(0) => Get(d, "memoryLimit") = JInt(0)
            /\ Keys(d) \subseteq {"query", "count", "options"}
                   \cup {pk[2] : pk \in Range(TopLevelParams) \cup Range(OptionParams)}

\* an execute call that sets falsy values and leaves the rest unset
C1_Witness ==
    /\ ExecuteBuilt
    /\ args.cache = False
    /\ args.batch_size = JInt(0)
    /\ args.ttl = None
    /\ args.memory_limit = JInt(0)
    /\ ~Has(request.data, "ttl")

\* C2: if at least one option parameter of execute is set, the payload has the
\* options object under 'options', holding exactly the set option fields, and
\* each of its fields is also a top-level key with the same value; if none is
\* set the payload has neither 'options' nor any option field.
C2_OptionsNestedAndFlat ==
    ExecuteBuilt =>
        LET d == request.data
        IN  IF AnyOptionSet(args)
            THEN /\ Has(d, "options")
                 /\ Keys(Get(d, "options"))
                      = {pk[2] : pk \in {x \in Range(OptionParams) : args[x[1]] # None}}
                 /\ \A pk \in Range(OptionParams) :
                      args[pk[1]] # None =>
                        /\ Get(Get(d, "options"), pk[2]) = OptionValue(args, pk)
                        /\ Has(d, pk[2])
                        /\ Get(d, pk[2]) = Get(Get(d, "options"), pk[2])
            ELSE /\ ~Has(d, "options")
                 /\ \A pk \in Range(OptionParams) : ~Has(d, pk[2])

\* an execute call with two options set, one of them falsy
C2_Witness ==
    /\ ExecuteBuilt
    /\ args.full_count = False
    /\ args.optimizer_rules = Rules
    /\ Has(request.data, "options")

(***************************************************************************)
(* Reading a script back: its arguments, and the string a literal denotes  *)
(***************************************************************************)
\* What reading one character does to a reader that is outside a string,
\* in a string, or in a string just after a backslash: the state it ends in,
\* the change of the bracket depth, and the commas met outside strings, each
\* with the depth it is met at.
ReadChar(s, i) ==
    LET c == s[i]
    IN  [out |-> [end |-> IF c = "\"" THEN "in" ELSE "out",
                  delta |-> IF c \in {"{", "["} THEN 1
                            ELSE IF c \in {"}", "]"} THEN -1 ELSE 0,
                  commas |-> IF c = "," THEN {<<i, 0>>} ELSE {}],
         in |-> [end |-> IF c = "\\" THEN "esc" ELSE IF c = "\"" THEN "out" ELSE "in",
                 delta |-> 0, commas |-> {}],
         esc |-> [end |-> "in", delta |-> 0, commas |-> {}]]

ReadThen(l, R) ==
    LET r == R[l.end]
    IN  [end |-> r.end, delta |-> l.delta + r.delta,
         commas |-> l.commas \cup {<<q[1], q[2] + l.delta>> : q \in r.commas}]

RECURSIVE Read(_, _, _)
Read(s, lo, hi) ==
    IF lo = hi THEN ReadChar(s, lo)
    ELSE LET mid == (lo + hi) \div 2
             L == Read(s, lo, mid)
             R == Read(s, mid + 1, hi)
         IN  [out |-> ReadThen(L.out, R), in |-> ReadThen(L.in, R),
              esc |-> ReadThen(L.esc, R)]

\* the positions of the commas of s that are outside strings and brackets
TopCommas(s) ==
    IF s = <<>> THEN {}
    ELSE {q[1] : q \in {x \in Read(s, 1, Len(s)).out.commas : x[2] = 0}}

StripSpace(s) == IF s # <<>> /\ s[1] = " " THEN Tail(s) ELSE s

SplitArgs(s) ==
    LET tc == TopCommas(s)
        nth(k) == IF k = 0 THEN 0
                  ELSE IF k > Cardinality(tc) THEN Len(s) + 1
                  ELSE CHOOSE c \in tc : Cardinality({d \in tc : d < c}) = k - 1
    IN  [k \in 1..(Cardinality(tc) + 1) |->
            StripSpace(SubSeq(s, nth(k - 1) + 1, nth(k) - 1))]

\* the argument expressions of a script db._query(...).toArray()
ScriptArgs(text) == SplitArgs(SubSeq(text, 2, Len(text) - 1))

IsQueryCall(text) ==
    /\ Len(text) >= 2
    /\ text[1] = "db._query("
    /\ text[Len(text)] = ").toArray()"

RECURSIVE Unescape(_)
Unescape(s) ==
    IF s = <<>> THEN <<>>
    ELSE IF Head(s) = "\\" /\ Len(s) >= 2 THEN <<s[2]>> \o Unescape(Tail(Tail(s)))
    ELSE <<Head(s)>> \o Unescape(Tail(s))

Unquote(lit) == Unescape(SubSeq(lit, 2, Len(lit) - 1))

\* lit is one string literal: writing the string it denotes gives lit again
IsStringLiteral(lit) ==
    /\ Len(lit) >= 2
    /\ lit[1] = "\""
    /\ lit[Len(lit)] = "\""
    /\ Quote(Unquote(lit)) = lit

Infix(p, s) == \E i \in 0..(Len(s) - Len(p)) : SubSeq(s, i + 1, i + Len(p)) = p

IsCursorCall(w) == w.via = "http" /\ w.method = "post" /\ w.endpoint = <<"/_api/cursor">>

\* C3: when execute(query, full_count=true) is called under a transaction, the
\* request carries a script whose first argument is a string literal denoting
\* the query text and whose last argument contains the options object with
\* fullCount: true, and no POST /_api/cursor is issued for the call; without a
\* transaction the request of execute carries no script.
C3_TransactionScript ==
    ExecuteBuilt =>
        IF executor = "transaction"
        THEN args.full_count = True =>
               /\ request.command # None
               /\ IsQueryCall(request.command.text)
               /\ LET sargs == ScriptArgs(request.command.text)
                      options == Get(request.data, "options")
                  IN  /\ IsStringLiteral(sargs[1])
                      /\ Unquote(sargs[1]) = args.query.s
                      /\ Get(options, "fullCount") = True
                      /\ Infix(Quote(<<"options">>) \o <<":", " ">> \o dumps(options),
                               sargs[Len(sargs)])
                      /\ Infix(Quote(<<"fullCount">>) \o <<":", " ">> \o <<"true">>,
                               dumps(options))
               /\ \A i \in 1..Len(wire) : ~IsCursorCall(wire[i])
        ELSE request.command = None

\* execute(query, full_count=true) under a transaction, with a query text that
\* needs escaping
C3_Witness ==
    /\ ExecuteBuilt
    /\ executor = "transaction"
    /\ args.full_count = True
    /\ "\"" \in Range(args.query.s)
    /\ Len(wire) = 1 /\ wire[1].via = "script"

\* C4 as stated: the script's three arguments are the JSON of the query, of
\* the bind variables and of the options object built from the option
\* parameters.
C4_ThirdArgumentIsOptions ==
    (ExecuteBuilt /\ executor = "transaction") =>
        /\ IsQueryCall(request.command.text)
        /\ ScriptArgs(request.command.text)
             = <<dumps(args.query), dumps(args.bind_vars), dumps(execute_options(args))>>

\* C4 amended: the script's three arguments are the JSON of the query, of the
\* bind variables and of the whole payload of the call (query, count, the set
\* top-level fields and, when an option is set, the options object under
\* 'options' with its fields repeated beside it); the call is followed by
\* .toArray().
C4_ThirdArgumentIsPayload ==
    (ExecuteBuilt /\ executor = "transaction") =>
        /\ IsQueryCall(request.command.text)
        /\ ScriptArgs(request.command.text)
             = <<dumps(args.query), dumps(args.bind_vars), dumps(request.data)>>
        /\ AnyOptionSet(args) =>
             Infix(dumps(execute_options(args)), ScriptArgs(request.command.text)[3])

\* a transaction-mode execute with bind variables and an option
C4_Witness ==
    /\ ExecuteBuilt
    /\ executor = "transaction"
    /\ args.bind_vars \notin {None, EmptyDict}
    /\ AnyOptionSet(args)
    /\ Len(ScriptArgs(request.command.text)) = 3

CollectionNames == {"students", "teachers"}

RECURSIVE Mentions(_, _)
\* a JSON value holds the list l somewhere
Mentions(v, l) ==
    \/ v = l
    \/ v.t = "list" /\ \E i \in 1..Len(v.xs) : Mentions(v.xs[i], l)
    \/ v.t = "obj" /\ \E i \in 1..Len(v.kv) : Mentions(v.kv[i][2], l)

\* C5: whatever read_collections and write_collections are, the body of
\* execute's request holds neither list under any key, the script (in
\* transaction mode) names no collection of them, and the request descriptor
\* carries them unchanged as its read set and write set.
C5_CollectionsOutOfBand ==
    ExecuteBuilt =>
        /\ request.read = args.read_collections
        /\ request.write = args.write_collections
        /\ Keys(request.data) \cap {"read", "write", "read_collections",
                                    "write_collections", "collections"} = {}
        /\ args.read_collections # None => ~Mentions(request.data, args.read_collections)
        /\ args.write_collections # None => ~Mentions(request.data, args.write_collections)
        /\ request.command # None =>
             \A i \in 1..Len(request.command.text) :
                request.command.text[i] \notin CollectionNames

\* a transaction-mode execute that declares both sets
C5_Witness ==
    /\ ExecuteBuilt
    /\ executor = "transaction"
    /\ args.read_collections = ReadSet
    /\ args.write_collections = WriteSet
    /\ request.command # None

Handled == pc = "done"

\* C6: delete_function returns False when the response carries error code 1582
\* and ignore_missing is true; with ignore_missing false the same response
\* raises AQLFunctionDeleteError; a non-success response with another error
\* code raises it whatever ignore_missing is; a success response returns
\* {deleted: deletedCount}.
C6_DeleteFunctionOutcome ==
    (Handled /\ op = "delete_function") =>
        LET raised == Raise("AQLFunctionDeleteError", resp, request)
        IN  /\ (resp.error_code = JInt(1582) /\ args.ignore_missing = True)
                 => outcome = Return(False)
            /\ (resp.error_code = JInt(1582) /\ args.ignore_missing = False)
                 => outcome = raised
            /\ (~resp.is_success /\ resp.error_code # JInt(1582)) => outcome = raised
            /\ resp.is_success
                 => outcome = Return(JObj(<< <<"deleted", Get(resp.body, "deletedCount")>> >>))

\* delete_function(ignore_missing=true) answered with "function not found"
C6_Witness ==
    /\ Handled /\ op = "delete_function"
    /\ args.ignore_missing = True
    /\ ~resp.is_success /\ resp.error_code = JInt(1582)
    /\ outcome.kind = "return"

\* the error kind each operation raises
ErrorKind(o) ==
    CASE o = "explain" -> "AQLQueryExplainError"
      [] o = "validate" -> "AQLQueryValidateError"
      [] o = "execute" -> "AQLQueryExecuteError"
      [] o = "kill" -> "AQLQueryKillError"
      [] o \in {"queries", "slow_queries"} -> "AQLQueryListError"
      [] o = "clear_slow_queries" -> "AQLQueryClearError"
      [] o = "tracking" -> "AQLQueryTrackingGetError"
      [] o = "set_tracking" -> "AQLQueryTrackingSetError"
      [] o = "functions" -> "AQLFunctionListError"
      [] o = "create_function" -> "AQLFunctionCreateError"
      [] o = "delete_function" -> "AQLFunctionDeleteError"
      [] o = "cache.properties" -> "AQLCachePropertiesError"
      [] o = "cache.configure" -> "AQLCacheConfigureError"
      [] o = "cache.entries" -> "AQLCacheEntriesError"
      [] o = "cache.clear" -> "AQLCacheClearError"

IgnoredMissing ==
    op = "delete_function" /\ args.ignore_missing = True /\ resp.error_code = JInt(1582)

\* what an outcome is apart from the response it may carry
Verdict(o) ==
    IF o.kind = "raise" THEN <<"raise", o.error, o.request>> ELSE <<"return", o.value>>

\* C7: for every operation a non-success response makes the handler raise the
\* operation's error kind, built from that response and the request of the
\* call, and never return, unless the operation is delete_function with
\* ignore_missing=true and the code is 1582; and for every operation but
\* delete_function the handler would decide the same had the response carried
\* any other error code.
C7_FailuresSurface ==
    Handled =>
        /\ (~resp.is_success /\ ~IgnoredMissing)
             => outcome = Raise(ErrorKind(op), resp, request)
        /\ op # "delete_function" =>
             \A c \in ErrorCodes :
                Verdict(response_handler(op, args, request, conn,
                                         [resp EXCEPT !.error_code = c]))
                  = Verdict(outcome)

\* a failed kill carrying an error code, surfaced as AQLQueryKillError
C7_Witness ==
    /\ Handled /\ op = "kill"
    /\ ~resp.is_success /\ resp.error_code = JInt(1591)
    /\ outcome.kind = "raise" /\ outcome.error = "AQLQueryKillError"

TrackingParams ==
    << <<"enabled", "enabled">>, <<"max_slow_queries", "maxSlowQueries">>,
       <<"slow_query_threshold", "slowQueryThreshold">>,
       <<"max_query_string_length", "maxQueryStringLength">>,
       <<"track_bind_vars", "trackBindVars">>,
       <<"track_slow_queries", "trackSlowQueries">> >>

CacheParams == << <<"mode", "mode">>, <<"limit", "maxResults">> >>

\* the payload is exactly the provided parameters under their wire names
ExactlyProvided(d, a, params) ==
    /\ Keys(d) = {pk[2] : pk \in {x \in Range(params) : a[x[1]] # None}}
    /\ \A pk \in Range(params) : a[pk[1]] # None => Get(d, pk[2]) = a[pk[1]]

\* C8: the payload of set_tracking and of configure has exactly the wire names
\* of the parameters that are not None, each with the given value, also when
\* the value is false or 0: set_tracking(max_slow_queries=5) sends
\* {maxSlowQueries: 5} and a call without parameters sends {}.
C8_OnlyProvidedFieldsSent ==
    /\ (pc # "idle" /\ op = "set_tracking") =>
         /\ ExactlyProvided(request.data, args, TrackingParams)
         /\ (args.max_slow_queries = JInt(5)
             /\ \A pk \in Range(TrackingParams) :
                  pk[1] # "max_slow_queries" => args[pk[1]] = None)
              => request.data = JObj(<< <<"maxSlowQueries", JInt(5)>> >>)
    /\ (pc # "idle" /\ op = "cache.configure") =>
         ExactlyProvided(request.data, args, CacheParams)

\* set_tracking with two falsy values
C8_Witness ==
    /\ pc # "idle" /\ op = "set_tracking"
    /\ args.enabled = False
    /\ args.max_slow_queries = JInt(0)
    /\ Keys(request.data) = {"enabled", "maxSlowQueries"}

\* setter(**normalized): the keyword arguments a normalized dict gives
Kwargs(normalized, params) ==
    [p \in {pk[1] : pk \in Range(params)} |->
        IF Has(normalized, p) THEN Get(normalized, p) ELSE None]

WithoutEnvelope(body) == Pop(Pop(body, "code"), "error")

\* C9: whatever properties body the server returns, every field of the
\* normalized result is a parameter of the matching setter, and passing them
\* all to it (set_tracking for tracking properties, configure for cache
\* properties) gives a payload equal to the body without its code and error
\* fields: the same wire names with the same values.
C9_RenamingRoundTrip ==
    (Handled /\ outcome.kind = "return") =>
        /\ op \in {"tracking", "set_tracking"} =>
             /\ Keys(outcome.value) \subseteq {pk[1] : pk \in Range(TrackingParams)}
             /\ DictEq(set_tracking_data(Kwargs(outcome.value, TrackingParams)),
                       WithoutEnvelope(resp.body))
        /\ op \in {"cache.properties", "cache.configure"} =>
             /\ Keys(outcome.value) \subseteq {pk[1] : pk \in Range(CacheParams)}
             /\ DictEq(configure_data(Kwargs(outcome.value, CacheParams)),
                       WithoutEnvelope(resp.body))

\* tracking() answered with all six properties inside the usual envelope
C9_Witness ==
    /\ Handled /\ op = "tracking" /\ outcome.kind = "return"
    /\ Keys(resp.body) = {"error", "code"} \cup {pk[2] : pk \in Range(TrackingParams)}
    /\ Keys(outcome.value) = {pk[1] : pk \in Range(TrackingParams)}

\* the request each operation builds from its arguments and the executor
RequestOf(o, a, ex) ==
    CASE o = "explain" -> explain_request(a)
      [] o = "validate" -> validate_request(a)
      [] o = "execute" -> execute_request(a, ex)
      [] o = "kill" -> kill_request(a)
      [] o = "queries" -> queries_request
      [] o = "slow_queries" -> slow_queries_request
      [] o = "clear_slow_queries" -> clear_slow_queries_request
      [] o = "tracking" -> tracking_request
      [] o = "set_tracking" -> set_tracking_request(a)
      [] o = "functions" -> functions_request
      [] o = "create_function" -> create_function_request(a)
      [] o = "delete_function" -> delete_function_request(a)
      [] o = "cache.properties" -> properties_request
      [] o = "cache.configure" -> configure_request(a)
      [] o = "cache.entries" -> entries_request
      [] o = "cache.clear" -> clear_request

\* C10: every step leaves the connection and the executor as they were; a
\* call hands exactly one request descriptor to the executor, the one built
\* from its own arguments and the transaction flag however many calls came
\* before; the handler's step hands over nothing more (no retry) and its
\* outcome is the handler's result for the one response it got.
C10_OneRequestPerCall ==
    [][/\ conn' = conn
       /\ executor' = executor
       /\ nsent' = ncalls'
       /\ pc' # "idle" =>
            /\ dispatched' = <<request'>>
            /\ request' = RequestOf(op', args', executor')
       /\ pc' = "done" =>
            /\ nsent' = nsent
            /\ outcome' = response_handler(op', args', request', conn', resp')]_vars

\* a second call on the same wrapper that failed and was not retried
C10_Witness ==
    /\ Handled
    /\ ncalls = 2 /\ nsent = 2
    /\ ~resp.is_success
    /\ outcome.kind = "raise"
    /\ Len(dispatched) = 1

Operations ==
    {"explain", "validate", "execute", "kill", "queries", "slow_queries",
     "clear_slow_queries", "tracking", "set_tracking", "functions",
     "create_function", "delete_function", "cache.properties", "cache.configure",
     "cache.entries", "cache.clear"}

\* the error kinds operation o raises on the non-success responses
KindsRaised(o) ==
    LET outcomes == {response_handler(o, a, NoRequest, conn, r) :
                       a \in (IF o = "delete_function" THEN DeleteFunctionArgs ELSE {NoArgs}),
                       r \in Failures}
    IN  {x.error : x \in {y \in outcomes : y.kind = "raise"}}

Failed == Handled /\ outcome.kind = "raise"

\* C12 as stated: the error kind an operation raises on a non-success response
\* is raised by no other operation of the module.
C12_KindsAllDistinct ==
    Failed => \A o \in Operations \ {op} : outcome.error \notin KindsRaised(o)

\* C12 amended: the error kind an operation raises on a non-success response is
\* raised by no other operation, except that queries and slow_queries both
\* raise AQLQueryListError; every operation raises one kind only, and the 16
\* operations raise 15 kinds between them.
C12_KindsDistinctButList ==
    Failed =>
        /\ \A o \in Operations \ {op} :
              outcome.error \in KindsRaised(o) <=> {op, o} = {"queries", "slow_queries"}
        /\ op \in {"queries", "slow_queries"} => outcome.error = "AQLQueryListError"
        /\ KindsRaised(op) = {outcome.error}
        /\ Cardinality(UNION {KindsRaised(o) : o \in Operations}) = 15

\* slow_queries failing with the error kind that queries raises too
C12_Witness ==
    /\ Failed
    /\ op = "slow_queries"
    /\ outcome.error \in KindsRaised("queries")

====
